---- MODULE Spec2Model ----
(***************************************************************************)
(* Model of the SOC report generator: the report routes                     *)
(* (src/src/routes/reports.ts), the Report table and its unique index       *)
(* (prisma migration), and PDFGenerator.analyzeFindings                     *)
(* (src/unnamed/part_003).                                                  *)
(*                                                                          *)
(* Every HTTP request is a process.  Node runs the synchronous code between *)
(* two awaits atomically, so an action is: the completion of the awaited    *)
(* operation (database call, rendering) together with the synchronous code  *)
(* that follows it up to the next await.  Database calls, rendering and     *)
(* file writes can fail (store unreachable, renderer error, disk error).    *)
(***************************************************************************)
EXTENDS Integers, Sequences, FiniteSets, TLC

\* ---------------------------------------------------------------- bounds
MaxReqs == 3        \* number of HTTP requests in a behaviour
MaxClock == 1       \* Date.now() ranges over 0..MaxClock
MaxLen == 3         \* longest findings list given to analyzeFindings alone
MaxRows == 21       \* most rows in the store that GET / is asked to list
MaxCount == 3       \* largest count in the metadata given to the renderer
MaxFindings == 3    \* most findings in a report whose rendering is followed

Reqs == 1..MaxReqs

\* ------------------------------------------------------- request payloads
\* An executionId is <<prefix, n>>; the two falsy ids are a missing field and "".
AbsentExec == <<"absent", 0>>
EmptyExec == <<"empty", 0>>
ExecIds == {<<"e", 1>>, <<"e", 2>>}
TestExec(t) == <<"test", t>>

\* Severity of a submitted finding: a string, a missing field, or a truthy
\* value that is not a string (a number, say).
AbsentSev == "<absent>"
NonStringSev == "<non-string>"
SevStrings == {"", "CRITICAL", "critical", "HIGH", "High", "MEDIUM", "LOW", "low", "info"}
SevInputs == SevStrings \cup {AbsentSev, NonStringSev}

\* A submitted finding: a JSON object with a severity, or JSON null.
Finding(s) == [isNull |-> FALSE, severity |-> s]
NullFinding == [isNull |-> TRUE, severity |-> AbsentSev]

\* The findings field of a body: missing, not an array, or a list.
AbsentFindings == [shape |-> "absent", list |-> << >>]
NotArrayFindings == [shape |-> "object", list |-> << >>]
ListFindings(l) == [shape |-> "array", list |-> l]
ReqLists ==
  { << Finding("critical"), Finding("info") >>,
    << Finding(NonStringSev) >> }
BodyFindings == {AbsentFindings, NotArrayFindings} \cup {ListFindings(l) : l \in ReqLists}

\* ------------------------------------------------------------ the store
NullExec == <<"null", 0>>
NullName == [exec |-> NullExec, ts |-> 0]
NullStr == "<null>"
FileName(e, t) == [exec |-> e, ts |-> t]

NoSummary == [kind |-> "none", totalFindings |-> 0, criticalCount |-> 0, highCount |-> 0,
              mediumCount |-> 0, lowCount |-> 0, error |-> NullStr]
ErrorSummary(msg) == [NoSummary EXCEPT !.kind = "error", !.error = msg]
TestSummary == [NoSummary EXCEPT !.kind = "test"]

VARIABLES
  rows,       \* the Report table: a set of rows
  files,      \* the reports directory: file name -> bytes
  nextId,     \* next generated primary key
  now,        \* Date.now()
  req,        \* the requests: kind, position, locals, response
  createdBy,  \* history: row id -> request that inserted it
  steps,      \* history: per request, the steps it has completed
  pure        \* a lone call of a pure function: input and result

vars == <<rows, files, nextId, now, req, createdBy, steps, pure>>

\* ------------------------------------------------------ analyzeFindings
\* String.prototype.toUpperCase on the severities of the model.
ToUpperCase(s) ==
  CASE s = "critical" -> "CRITICAL"
    [] s = "High" -> "HIGH"
    [] s = "low" -> "LOW"
    [] s = "info" -> "INFO"
    [] OTHER -> s

\* (finding.severity || 'MEDIUM'): undefined and "" are falsy.
SeverityOrDefault(f) ==
  IF f.severity \in {AbsentSev, ""} THEN "MEDIUM" ELSE f.severity

\* finding.severity on null, or .toUpperCase on a non-string, throws a TypeError.
SeverityThrows(f) == f.isNull \/ f.severity = NonStringSev

NormalizedSeverity(f) == ToUpperCase(SeverityOrDefault(f))

AnalyzeThrows(findings) == \E i \in 1..Len(findings) : SeverityThrows(findings[i])

CountSeverity(findings, sev) ==
  Cardinality({i \in 1..Len(findings) : NormalizedSeverity(findings[i]) = sev})

analyzeFindings(findings) ==
  [kind |-> "counts",
   totalFindings |-> Len(findings),
   criticalCount |-> CountSeverity(findings, "CRITICAL"),
   highCount |-> CountSeverity(findings, "HIGH"),
   mediumCount |-> CountSeverity(findings, "MEDIUM"),
   lowCount |-> CountSeverity(findings, "LOW"),
   error |-> NullStr]

\* ------------------------------------------------------------- requests
\* Date.now() read again: the same millisecond as the last reading or a later
\* one (timestamps are only compared for equality, so the next one stands for
\* every later one).
Readings == {t \in {now, now + 1} : t <= MaxClock}

Bytes(r) == [renderedFor |-> r]

\* A response: status code, the fields of a JSON body, and for a streamed
\* file its headers and the bytes sent.
NoResp == [code |-> 0, success |-> FALSE, error |-> NullStr, message |-> NullStr,
           reportId |-> 0, status |-> NullStr, fields |-> {},
           contentType |-> NullStr, disposition |-> NullStr, body |-> Bytes(0)]

IdleReq == [kind |-> "none", pc |-> "idle", executionId |-> NullExec,
            findings |-> AbsentFindings, id |-> 0, report |-> 0, pdfPath |-> NullName,
            analysis |-> NoSummary, error |-> NullStr, resp |-> NoResp,
            givenBy |-> {}]

\* A read stream's 'error' has no listener and app.ts installs no
\* uncaughtException handler: once a request has met it the process has
\* ended, and no request is served or continued.
Alive == \A q \in Reqs : req[q].pc # "uncaught"

\* Requests are interchangeable: slot r is used after slot r-1.
CanStart(r) ==
  /\ Alive
  /\ req[r].pc = "idle" /\ (IF r = 1 THEN TRUE ELSE req[r - 1].pc # "idle")

Respond(q, resp) == [q EXCEPT !.pc = "done", !.resp = resp]
Log(r, entries) == steps' = [steps EXCEPT ![r] = @ \o entries]

\* CREATE UNIQUE INDEX "Report_executionId_key": an insert of a second row
\* with the same executionId is refused.
NoUniqueIndex(e) == FALSE
UniqueViolation(e) == \E w \in rows : w.executionId = e

\* Execution ids are interchangeable: <<"e", n+1>> is first used after <<"e", n>>.
UsableExecIds ==
  {e \in ExecIds : e[2] = 1 \/ \E q \in Reqs : req[q].executionId = <<"e", e[2] - 1>>}

\* The bodies sent: every usable executionId with every findings field, and
\* the two falsy executionIds (their findings are never looked at).
Bodies ==
  {[executionId |-> e, findings |-> f] : e \in UsableExecIds, f \in BodyFindings}
  \cup {[executionId |-> e, findings |-> ListFindings(<< Finding("HIGH") >>)] :
           e \in {AbsentExec, EmptyExec}}

\* `!executionId`, then `!findings || !Array.isArray(findings)`.
OnlyExecutionIdChecked(body) ==
  IF body.executionId \in {AbsentExec, EmptyExec} THEN "executionId is required" ELSE NullStr
ValidationError(body) ==
  IF body.executionId \in {AbsentExec, EmptyExec} THEN "executionId is required"
  ELSE IF body.findings.shape # "array" THEN "findings must be an array"
  ELSE NullStr

\* catch (error) of the generate handler: go and mark the row FAILED.
Throw(q, msg) == [q EXCEPT !.pc = "catch", !.error = msg]

\* POST /generate, lines 41-82: validation; findUnique where executionId
\* answers; an existing row is returned as it is, otherwise the findings are
\* analysed and the insert is issued.  (The arrival of a request is seen by
\* no other request before its first store call answers, so the two are one
\* step.)
GenerateStart(r) ==
  /\ CanStart(r)
  /\ \E body \in Bodies :
       LET e == body.executionId
           f == body.findings
           q == [IdleReq EXCEPT !.kind = "generate", !.executionId = e, !.findings = f]
           found == {w \in rows : w.executionId = e}
           seen == IF found = {} THEN "check:none" ELSE "check:exists"
       IN  IF ValidationError(body) # NullStr
           THEN /\ req' = [req EXCEPT ![r] = Respond(q,
                             [NoResp EXCEPT !.code = 400, !.error = ValidationError(body),
                                            !.fields = {"success", "error"}])]
                /\ Log(r, << "respond" >>)
           ELSE \/ /\ req' = [req EXCEPT ![r] = Throw(q, "database unreachable")]
                   /\ Log(r, << seen >>)
                \/ /\ found # {}
                   /\ \E w \in found :
                        req' = [req EXCEPT ![r] = Respond(q,
                                  [NoResp EXCEPT !.code = 200, !.success = TRUE,
                                                 !.message = "Report already exists",
                                                 !.reportId = w.id, !.status = w.status,
                                                 !.fields = {"success", "message", "data"}])]
                   /\ Log(r, << seen, "respond" >>)
                \/ /\ found = {}
                   /\ IF AnalyzeThrows(f.list)
                      THEN req' = [req EXCEPT ![r] = Throw(q, "TypeError")]
                      ELSE req' = [req EXCEPT ![r] = [q EXCEPT !.pc = "create",
                                                         !.analysis = analyzeFindings(f.list)]]
                   /\ Log(r, << seen >>)
  /\ UNCHANGED <<rows, files, nextId, now, createdBy, pure>>

\* Lines 84-128: the insert answers; the findings are normalised and
\* rendering starts.
GenerateCreate(r) ==
  /\ Alive
  /\ req[r].kind = "generate" /\ req[r].pc = "create"
  /\ LET e == req[r].executionId
     IN  \/ /\ req' = [req EXCEPT ![r] = Throw(req[r], "database unreachable")]
            /\ Log(r, << >>)
            /\ UNCHANGED <<rows, nextId, createdBy>>
         \/ /\ UniqueViolation(e)
            /\ req' = [req EXCEPT ![r] = Throw(req[r], "Unique constraint failed")]
            /\ Log(r, << >>)
            /\ UNCHANGED <<rows, nextId, createdBy>>
         \/ /\ ~UniqueViolation(e)
            /\ rows' = rows \cup {[id |-> nextId, executionId |-> e,
                                   summary |-> req[r].analysis, status |-> "PROCESSING",
                                   pdfUrl |-> NullName, pdfPath |-> NullName,
                                   fileSize |-> NullStr]}
            /\ nextId' = nextId + 1
            /\ createdBy' = createdBy @@ (nextId :> r)
            /\ req' = [req EXCEPT ![r] = [@ EXCEPT !.pc = "render", !.report = nextId]]
            /\ Log(r, << "insert" >>)
  /\ UNCHANGED <<files, now, pure>>

FileSize(bytes) == "KB"

\* await pdfGenerator.generateReport(reportData): the promise has been
\* resolved, or rejected.  Where the renderer is not followed step by step
\* (pure.pc = "off") it may have done either.
Resolved == IF pure.pc = "off" THEN TRUE ELSE pure.promise = "resolved"
Rejected == IF pure.pc = "off" THEN TRUE ELSE pure.promise = "rejected"

\* generateReport not awaited: the file is written before rendering has ended.
GenerateRenderNotAwaited(r) ==
  /\ Alive
  /\ req[r].kind = "generate" /\ req[r].pc = "render"
  /\ \E t \in Readings :
       LET fileName == FileName(req[r].executionId, t)
       IN  /\ now' = t
           /\ files' = [n \in DOMAIN files \cup {fileName} |->
                          IF n = fileName THEN Bytes(r) ELSE files[n]]
           /\ req' = [req EXCEPT ![r] = [@ EXCEPT !.pc = "update", !.pdfPath = fileName]]
           /\ Log(r, << "write", "render" >>)
  /\ UNCHANGED <<rows, nextId, createdBy, pure>>

\* Lines 128-151: rendering ends; the buffer is written under
\* report-<executionId>-<Date.now()>.pdf and the update is issued.
GenerateRender(r) ==
  /\ Alive
  /\ req[r].kind = "generate" /\ req[r].pc = "render"
  /\ \/ /\ Rejected
        /\ req' = [req EXCEPT ![r] = Throw(req[r], "render failed")]
        /\ Log(r, << >>)
        /\ UNCHANGED <<files, now>>
     \/ /\ Resolved
        /\ req' = [req EXCEPT ![r] = Throw(req[r], "write failed")]
        /\ Log(r, << "render" >>)
        /\ UNCHANGED <<files, now>>
     \/ \E t \in Readings :
          LET fileName == FileName(req[r].executionId, t)
          IN  /\ Resolved
              /\ now' = t
              /\ files' = [n \in DOMAIN files \cup {fileName} |->
                             IF n = fileName THEN Bytes(r) ELSE files[n]]
              /\ req' = [req EXCEPT ![r] = [@ EXCEPT !.pc = "update", !.pdfPath = fileName]]
              /\ Log(r, << "render", "write" >>)
  /\ UNCHANGED <<rows, nextId, createdBy, pure>>

\* Lines 142-179: update where id = report.id answers; the success response.
GenerateUpdate(r) ==
  /\ Alive
  /\ req[r].kind = "generate" /\ req[r].pc = "update"
  /\ LET mine == {w \in rows : w.id = req[r].report}
     IN  \/ /\ req' = [req EXCEPT ![r] = Throw(req[r], "database unreachable")]
            /\ Log(r, << >>)
            /\ UNCHANGED rows
         \/ /\ mine = {}
            /\ req' = [req EXCEPT ![r] = Throw(req[r], "Record to update not found")]
            /\ Log(r, << >>)
            /\ UNCHANGED rows
         \/ /\ mine # {}
            /\ rows' = {IF w \in mine
                        THEN [w EXCEPT !.pdfUrl = req[r].pdfPath, !.pdfPath = req[r].pdfPath,
                                       !.fileSize = FileSize(Bytes(r)), !.status = "COMPLETED"]
                        ELSE w : w \in rows}
            /\ req' = [req EXCEPT ![r] = Respond(req[r],
                         [NoResp EXCEPT !.code = 200, !.success = TRUE,
                                        !.message = "Report generated successfully",
                                        !.reportId = req[r].report, !.status = "COMPLETED",
                                        !.fields = {"success", "message", "data"}])]
            /\ Log(r, << "update", "respond" >>)
  /\ UNCHANGED <<files, nextId, now, createdBy, pure>>

\* No inner try: a failing updateMany replaces the answer's message.
GenerateCatchSurfacesDbError(r) ==
  /\ Alive
  /\ req[r].kind = "generate" /\ req[r].pc = "catch"
  /\ \/ /\ rows' = {IF w.executionId = req[r].executionId
                    THEN [w EXCEPT !.status = "FAILED", !.summary = ErrorSummary(req[r].error)]
                    ELSE w : w \in rows}
        /\ Log(r, << "updateMany", "respond" >>)
        /\ req' = [req EXCEPT ![r] = Respond(req[r],
                     [NoResp EXCEPT !.code = 500, !.error = "Failed to generate report",
                                    !.message = req[r].error,
                                    !.fields = {"success", "error", "message", "timestamp"}])]
     \/ /\ UNCHANGED rows
        /\ Log(r, << "updateMany failed", "respond" >>)
        /\ req' = [req EXCEPT ![r] = Respond(req[r],
                     [NoResp EXCEPT !.code = 500, !.error = "Failed to generate report",
                                    !.message = "database unreachable",
                                    !.fields = {"success", "error", "message", "timestamp"}])]
  /\ UNCHANGED <<files, nextId, now, createdBy, pure>>

\* Lines 181-210: updateMany where executionId, in its own try; then 500
\* with the message of the error that was caught first.
GenerateCatch(r) ==
  /\ Alive
  /\ req[r].kind = "generate" /\ req[r].pc = "catch"
  /\ \/ /\ rows' = {IF w.executionId = req[r].executionId
                    THEN [w EXCEPT !.status = "FAILED", !.summary = ErrorSummary(req[r].error)]
                    ELSE w : w \in rows}
        /\ Log(r, << "updateMany", "respond" >>)
     \/ /\ UNCHANGED rows
        /\ Log(r, << "updateMany failed", "respond" >>)
  /\ req' = [req EXCEPT ![r] = Respond(req[r],
               [NoResp EXCEPT !.code = 500, !.error = "Failed to generate report",
                              !.message = req[r].error,
                              !.fields = {"success", "error", "message", "timestamp"}])]
  /\ UNCHANGED <<files, nextId, now, createdBy, pure>>

\* ------------------------------------------------------------ DELETE /:id
DeleteError == [NoResp EXCEPT !.code = 500, !.error = "Failed to delete report",
                              !.fields = {"success", "error"}]
NotFound == [NoResp EXCEPT !.code = 404, !.error = "Report not found",
                           !.fields = {"success", "error"}]

\* Lines 419-432: findUnique where id answers; 404 when there is no such row.
DeleteStart(r) ==
  /\ CanStart(r)
  /\ \E id \in 1..nextId :
       LET q == [IdleReq EXCEPT !.kind = "delete", !.id = id]
           found == {w \in rows : w.id = id}
       IN  \/ /\ req' = [req EXCEPT ![r] = Respond(q, DeleteError)]
              /\ Log(r, << "respond" >>)
           \/ /\ found = {}
              /\ req' = [req EXCEPT ![r] = Respond(q, NotFound)]
              /\ Log(r, << "respond" >>)
           \/ \E w \in found :
                /\ req' = [req EXCEPT ![r] = [q EXCEPT !.pc = "unlink", !.pdfPath = w.pdfPath,
                                                       !.executionId = w.executionId]]
                /\ Log(r, << >>)
  /\ UNCHANGED <<rows, files, nextId, now, createdBy, pure>>

\* Lines 434-442: the file named by the row that was read is unlinked when
\* it exists, and the delete of the row is issued.
DeleteUnlink(r) ==
  /\ Alive
  /\ req[r].kind = "delete" /\ req[r].pc = "unlink"
  /\ LET p == req[r].pdfPath
     IN  IF p # NullName /\ p \in DOMAIN files
         THEN \/ /\ files' = [n \in DOMAIN files \ {p} |-> files[n]]
                 /\ req' = [req EXCEPT ![r] = [@ EXCEPT !.pc = "delete"]]
                 /\ Log(r, << "unlink" >>)
              \/ /\ UNCHANGED files
                 /\ req' = [req EXCEPT ![r] = Respond(req[r], DeleteError)]
                 /\ Log(r, << "respond" >>)
         ELSE /\ UNCHANGED files
              /\ req' = [req EXCEPT ![r] = [@ EXCEPT !.pc = "delete"]]
              /\ Log(r, << >>)
  /\ UNCHANGED <<rows, nextId, now, createdBy, pure>>

\* Lines 439-455: delete where id answers.
DeleteRow(r) ==
  /\ Alive
  /\ req[r].kind = "delete" /\ req[r].pc = "delete"
  /\ LET found == {w \in rows : w.id = req[r].id}
     IN  \/ /\ req' = [req EXCEPT ![r] = Respond(req[r], DeleteError)]
            /\ Log(r, << "respond" >>)
            /\ UNCHANGED rows
         \/ /\ found # {}
            /\ rows' = rows \ found
            /\ req' = [req EXCEPT ![r] = Respond(req[r],
                         [NoResp EXCEPT !.code = 200, !.success = TRUE,
                                        !.message = "deleted successfully",
                                        !.reportId = req[r].id,
                                        !.fields = {"success", "message", "deletedFile"}])]
            /\ Log(r, << "delete", "respond" >>)
  /\ UNCHANGED <<files, nextId, now, createdBy, pure>>

\* ------------------------ GET /download/:filename and GET /view/:filename
FileNotFound == [NoResp EXCEPT !.code = 404, !.error = "Report file not found",
                               !.fields = {"success", "error"}]

\* The file names asked for: every file of the directory, and the name the
\* first generate request gives its file, asked for before, while and after
\* that file exists.
AskedNames == DOMAIN files \cup {FileName(<<"e", 1>>, 0)}

\* History: the generate requests whose success response named file n.
GivenBy(n) ==
  {g \in Reqs : /\ req[g].kind = "generate" /\ req[g].pc = "done"
                /\ req[g].resp.message = "Report generated successfully"
                /\ req[g].pdfPath = n}

\* fs.existsSync(filePath): 404 when the file is not there; else the headers
\* are set and fs.createReadStream(filePath).pipe(res) is set up.  The stream
\* opens the file later, on the event loop.
ServeStart(r, kind, disposition) ==
  /\ CanStart(r)
  /\ \E n \in AskedNames :
       LET q == [IdleReq EXCEPT !.kind = kind, !.pdfPath = n, !.givenBy = GivenBy(n)]
       IN  IF n \notin DOMAIN files
           THEN /\ req' = [req EXCEPT ![r] = Respond(q, FileNotFound)]
                /\ Log(r, << "respond" >>)
           ELSE /\ req' = [req EXCEPT ![r] =
                             [q EXCEPT !.pc = "stream",
                                       !.resp = [NoResp EXCEPT !.contentType = "application/pdf",
                                                               !.disposition = disposition]]]
                /\ Log(r, << "headers" >>)
  /\ UNCHANGED <<rows, files, nextId, now, createdBy, pure>>

DownloadStart(r) == ServeStart(r, "download", "attachment")
ViewStart(r) == ServeStart(r, "view", "inline")

\* A served file removed once it has been sent.
ServeStreamThenUnlink(r) ==
  /\ Alive
  /\ req[r].kind \in {"download", "view"} /\ req[r].pc = "stream"
  /\ LET n == req[r].pdfPath
     IN  IF n \in DOMAIN files
         THEN /\ req' = [req EXCEPT ![r] =
                           Respond(req[r], [req[r].resp EXCEPT !.code = 200, !.body = files[n]])]
              /\ files' = [m \in DOMAIN files \ {n} |-> files[m]]
              /\ Log(r, << "respond" >>)
         ELSE /\ req' = [req EXCEPT ![r] = [@ EXCEPT !.pc = "uncaught"]]
              /\ UNCHANGED files
              /\ Log(r, << >>)
  /\ UNCHANGED <<rows, nextId, now, createdBy, pure>>

\* The read stream opens the file and pipes it into the response with status
\* 200.  When the file has been unlinked since existsSync the stream emits
\* 'error', which has no listener: the exception is uncaught and the process
\* ends.
ServeStream(r) ==
  /\ Alive
  /\ req[r].kind \in {"download", "view"} /\ req[r].pc = "stream"
  /\ LET n == req[r].pdfPath
     IN  IF n \in DOMAIN files
         THEN /\ req' = [req EXCEPT ![r] =
                           Respond(req[r], [req[r].resp EXCEPT !.code = 200, !.body = files[n]])]
              /\ Log(r, << "respond" >>)
         ELSE /\ req' = [req EXCEPT ![r] = [@ EXCEPT !.pc = "uncaught"]]
              /\ Log(r, << >>)
  /\ UNCHANGED <<rows, files, nextId, now, createdBy, pure>>

\* ----------------------------------------------------------- GET /test/db
TestDbError(msg) == [NoResp EXCEPT !.code = 500, !.error = "Database test failed", !.message = msg,
                                   !.fields = {"success", "error", "message", "timestamp"}]

\* Lines 459-474: the probe answers; the insert of test-<Date.now()> is issued.
TestDbStart(r) ==
  /\ CanStart(r)
  /\ LET q == [IdleReq EXCEPT !.kind = "testdb"]
     IN  \/ /\ req' = [req EXCEPT ![r] = Respond(q, TestDbError("database unreachable"))]
            /\ Log(r, << "respond" >>)
            /\ UNCHANGED now
         \/ \E t \in Readings :
              /\ now' = t
              /\ req' = [req EXCEPT ![r] = [q EXCEPT !.pc = "create", !.executionId = TestExec(t)]]
              /\ Log(r, << >>)
  /\ UNCHANGED <<rows, files, nextId, createdBy, pure>>

\* Lines 465-477: the insert answers (a row that is COMPLETED from the start).
TestDbCreate(r) ==
  /\ Alive
  /\ req[r].kind = "testdb" /\ req[r].pc = "create"
  /\ LET e == req[r].executionId
     IN  \/ /\ req' = [req EXCEPT ![r] = Respond(req[r], TestDbError("database unreachable"))]
            /\ Log(r, << "respond" >>)
            /\ UNCHANGED <<rows, nextId, createdBy>>
         \/ /\ UniqueViolation(e)
            /\ req' = [req EXCEPT ![r] = Respond(req[r], TestDbError("Unique constraint failed"))]
            /\ Log(r, << "respond" >>)
            /\ UNCHANGED <<rows, nextId, createdBy>>
         \/ /\ ~UniqueViolation(e)
            /\ rows' = rows \cup {[id |-> nextId, executionId |-> e,
                                   summary |-> TestSummary, status |-> "COMPLETED",
                                   pdfUrl |-> NullName, pdfPath |-> NullName,
                                   fileSize |-> NullStr]}
            /\ nextId' = nextId + 1
            /\ createdBy' = createdBy @@ (nextId :> r)
            /\ req' = [req EXCEPT ![r] = [@ EXCEPT !.pc = "count", !.report = nextId]]
            /\ Log(r, << "insert" >>)
  /\ UNCHANGED <<files, now, pure>>

\* Lines 476-482: count answers; the delete of the test row is issued.
TestDbCount(r) ==
  /\ Alive
  /\ req[r].kind = "testdb" /\ req[r].pc = "count"
  /\ \/ /\ req' = [req EXCEPT ![r] = Respond(req[r], TestDbError("database unreachable"))]
        /\ Log(r, << "respond" >>)
     \/ /\ req' = [req EXCEPT ![r] = [@ EXCEPT !.pc = "delete"]]
        /\ Log(r, << >>)
  /\ UNCHANGED <<rows, files, nextId, now, createdBy, pure>>

\* Lines 479-503: the delete answers.
TestDbDelete(r) ==
  /\ Alive
  /\ req[r].kind = "testdb" /\ req[r].pc = "delete"
  /\ LET found == {w \in rows : w.id = req[r].report}
     IN  \/ /\ req' = [req EXCEPT ![r] = Respond(req[r], TestDbError("database unreachable"))]
            /\ Log(r, << "respond" >>)
            /\ UNCHANGED rows
         \/ /\ found = {}
            /\ req' = [req EXCEPT ![r] = Respond(req[r], TestDbError("Record to delete does not exist"))]
            /\ Log(r, << "respond" >>)
            /\ UNCHANGED rows
         \/ /\ found # {}
            /\ rows' = rows \ found
            /\ req' = [req EXCEPT ![r] = Respond(req[r],
                         [NoResp EXCEPT !.code = 200, !.success = TRUE,
                                        !.message = "Database test successful",
                                        !.fields = {"success", "message", "operations", "count",
                                                    "timestamp"}])]
            /\ Log(r, << "delete", "respond" >>)
  /\ UNCHANGED <<files, nextId, now, createdBy, pure>>

\* ------------------------------------------------------ the other reads
\* Each handler below has one await (or none): the request is followed from
\* the moment its query answers.
ReadError(msg) == [NoResp EXCEPT !.code = 500, !.error = msg, !.fields = {"success", "error"}]

\* Lines 17-38: SELECT 1 answers or fails.
HealthCheck(r) ==
  /\ CanStart(r)
  /\ LET q == [IdleReq EXCEPT !.kind = "health"]
     IN  \/ req' = [req EXCEPT ![r] = Respond(q,
                      [NoResp EXCEPT !.code = 200, !.status = "OK",
                                     !.fields = {"status", "service", "database", "timestamp"}])]
         \/ req' = [req EXCEPT ![r] = Respond(q,
                      [NoResp EXCEPT !.code = 500, !.status = "ERROR",
                                     !.fields = {"status", "service", "database", "error",
                                                 "timestamp"}])]
  /\ Log(r, << "respond" >>)
  /\ UNCHANGED <<rows, files, nextId, now, createdBy, pure>>

\* What findUnique found: 200 with the row, or 404.
Fetched(q, found) ==
  IF found = {}
  THEN Respond(q, [NoResp EXCEPT !.code = 404, !.error = "Report not found",
                                 !.fields = {"success", "error"}])
  ELSE LET w == CHOOSE w \in found : TRUE
       IN  Respond(q, [NoResp EXCEPT !.code = 200, !.success = TRUE, !.reportId = w.id,
                                     !.status = w.status, !.fields = {"success", "data"}])

\* Lines 214-240: findUnique by id answers or fails.
GetById(r) ==
  /\ CanStart(r)
  /\ \E i \in 1..nextId :
       LET q == [IdleReq EXCEPT !.kind = "get", !.id = i]
       IN  \/ req' = [req EXCEPT ![r] = Respond(q, ReadError("Failed to fetch report"))]
           \/ req' = [req EXCEPT ![r] = Fetched(q, {w \in rows : w.id = i})]
  /\ Log(r, << "respond" >>)
  /\ UNCHANGED <<rows, files, nextId, now, createdBy, pure>>

\* Lines 243-269: findUnique by executionId answers or fails.
GetByExecution(r) ==
  /\ CanStart(r)
  /\ \E e \in UsableExecIds :
       LET q == [IdleReq EXCEPT !.kind = "getByExecution", !.executionId = e]
       IN  \/ req' = [req EXCEPT ![r] = Respond(q, ReadError("Failed to fetch report"))]
           \/ req' = [req EXCEPT ![r] = Fetched(q, {w \in rows : w.executionId = e})]
  /\ Log(r, << "respond" >>)
  /\ UNCHANGED <<rows, files, nextId, now, createdBy, pure>>

\* Lines 272-327 with the default query: findMany and count answer together
\* (Promise.all) or one of them fails.
ListReports(r) ==
  /\ CanStart(r)
  /\ LET q == [IdleReq EXCEPT !.kind = "list"]
     IN  \/ req' = [req EXCEPT ![r] = Respond(q, ReadError("Failed to list reports"))]
         \/ req' = [req EXCEPT ![r] = Respond(q,
                      [NoResp EXCEPT !.code = 200, !.success = TRUE,
                                     !.fields = {"success", "data", "pagination"}])]
  /\ Log(r, << "respond" >>)
  /\ UNCHANGED <<rows, files, nextId, now, createdBy, pure>>

\* Lines 386-416: readdirSync and statSync run without a break; either throws
\* or the directory is listed.
ListFiles(r) ==
  /\ CanStart(r)
  /\ LET q == [IdleReq EXCEPT !.kind = "listFiles"]
     IN  \/ req' = [req EXCEPT ![r] = Respond(q, ReadError("Failed to list files"))]
         \/ req' = [req EXCEPT ![r] = Respond(q,
                      [NoResp EXCEPT !.code = 200, !.success = TRUE,
                                     !.fields = {"success", "count", "reports"}])]
  /\ Log(r, << "respond" >>)
  /\ UNCHANGED <<rows, files, nextId, now, createdBy, pure>>

\* ------------------------------------------------------- the route layer
PureOff == [pc |-> "off", findings |-> << >>, result |-> NoSummary]

Init ==
  /\ rows = {}
  /\ files = [n \in {} |-> Bytes(0)]
  /\ nextId = 1
  /\ now = 0
  /\ req = [r \in Reqs |-> IdleReq]
  /\ createdBy = [i \in {} |-> 0]
  /\ steps = [r \in Reqs |-> << >>]
  /\ pure = PureOff

Next ==
  \E r \in Reqs :
    \/ GenerateStart(r)
    \/ GenerateCreate(r)
    \/ GenerateRender(r)
    \/ GenerateUpdate(r)
    \/ GenerateCatch(r)
    \/ DeleteStart(r)
    \/ DeleteUnlink(r)
    \/ DeleteRow(r)
    \/ TestDbStart(r)
    \/ TestDbCreate(r)
    \/ TestDbCount(r)
    \/ TestDbDelete(r)
    \/ DownloadStart(r)
    \/ ViewStart(r)
    \/ ServeStream(r)
    \/ HealthCheck(r)
    \/ GetById(r)
    \/ GetByExecution(r)
    \/ ListReports(r)
    \/ ListFiles(r)

Spec == Init /\ [][Next]_vars

\* ------------------------------------------ the routes on a used service
\* The service some way into its life: a generate request for e1 has
\* inserted row 1 and is rendering; a delete request, answered since, found
\* that row PROCESSING and removed it.
InitFiles ==
  LET l == << Finding("critical"), Finding("info") >>
  IN  /\ rows = {}
      /\ files = [n \in {} |-> Bytes(0)]
      /\ nextId = 2
      /\ now = 0
      /\ req = [r \in Reqs |->
                  IF r = 1
                  THEN [IdleReq EXCEPT !.kind = "generate", !.pc = "render",
                                       !.executionId = <<"e", 1>>,
                                       !.findings = ListFindings(l),
                                       !.analysis = analyzeFindings(l), !.report = 1]
                  ELSE IdleReq]
      /\ createdBy = (1 :> 1)
      /\ steps = [r \in Reqs |-> IF r = 1 THEN << "check:none", "insert" >> ELSE << >>]
      /\ pure = PureOff

SpecFiles == InitFiles /\ [][Next]_vars

\* ------------------------------------------------------- GET / on its own
\* A store of n reports, ids in the order of their createdAt: a third still
\* PROCESSING, a third COMPLETED, a third FAILED.
StoredRow(i) ==
  LET e == <<"e", i>>
      base == [id |-> i, executionId |-> e, summary |-> NoSummary, status |-> "PROCESSING",
               pdfUrl |-> NullName, pdfPath |-> NullName, fileSize |-> NullStr]
  IN  CASE i % 3 = 1 -> [base EXCEPT !.status = "COMPLETED", !.pdfUrl = FileName(e, 0),
                                     !.pdfPath = FileName(e, 0), !.fileSize = "KB"]
        [] i % 3 = 2 -> [base EXCEPT !.status = "FAILED",
                                     !.summary = ErrorSummary("render failed")]
        [] OTHER -> base

\* The query of GET /: page, limit, status (NoStatus when not given) and
\* sortOrder; sortBy is left at createdAt.
NoStatus == "<none>"
ListQueries ==
  [page : {1, 2}, limit : {5, 20}, status : {NoStatus, "COMPLETED"},
   sortOrder : {"desc", "asc"}]

\* where: { status } when a status is given.
Where(store, status) ==
  IF status = NoStatus THEN store ELSE {w \in store : w.status = status}

\* orderBy createdAt: the ids of the rows, newest first for desc.
OrderBy(store, sortOrder) ==
  LET ids == {w.id : w \in store}
      after(i) == IF sortOrder = "desc" THEN {j \in ids : j > i} ELSE {j \in ids : j < i}
  IN  [k \in 1..Cardinality(ids) |-> CHOOSE i \in ids : Cardinality(after(i)) = k - 1]

\* skip and take.
SkipTake(sorted, skip, take) ==
  [k \in 1..(IF Len(sorted) - skip < 0 THEN 0
             ELSE IF Len(sorted) - skip < take THEN Len(sorted) - skip ELSE take)
     |-> sorted[skip + k]]

\* Math.floor in place of Math.ceil.
PagesRoundedDown(total, limit) == total \div limit
\* Math.ceil(total / Number(limit)), limit positive.
Pages(total, limit) == (total + limit - 1) \div limit

\* findMany and count of the same where, and the answer.
ListResult(store, q) ==
  LET skip == (q.page - 1) * q.limit
      matching == Where(store, q.status)
      total == Cardinality(matching)
  IN  [data |-> SkipTake(OrderBy(matching, q.sortOrder), skip, q.limit),
       page |-> q.page, limit |-> q.limit, total |-> total,
       pages |-> Pages(total, q.limit)]

NoList == [data |-> << >>, page |-> 0, limit |-> 0, total |-> 0, pages |-> 0]

InitList ==
  /\ \E n \in 0..MaxRows : rows = {StoredRow(i) : i \in 1..n}
  /\ files = [n \in {} |-> Bytes(0)]
  /\ nextId = 1
  /\ now = 0
  /\ req = [r \in Reqs |-> IdleReq]
  /\ createdBy = [i \in {} |-> 0]
  /\ steps = [r \in Reqs |-> << >>]
  /\ pure \in {[pc |-> "call", query |-> q, result |-> NoList] : q \in ListQueries}

\* One GET / against a store that no other request changes: both queries
\* answer, or the store is unreachable and the answer is 500.
ListCall ==
  /\ pure.pc = "call"
  /\ \/ pure' = [pure EXCEPT !.pc = "returned", !.result = ListResult(rows, pure.query)]
     \/ pure' = [pure EXCEPT !.pc = "failed"]
  /\ UNCHANGED <<rows, files, nextId, now, req, createdBy, steps>>

NextList == ListCall

SpecList == InitList /\ [][NextList]_vars

\* ------------------------------------------- analyzeFindings on its own
FindingInputs == {Finding(s) : s \in SevInputs} \cup {NullFinding}
FindingLists == UNION {[1..n -> FindingInputs] : n \in 0..MaxLen}

InitAnalyze ==
  /\ rows = {}
  /\ files = [n \in {} |-> Bytes(0)]
  /\ nextId = 1
  /\ now = 0
  /\ req = [r \in Reqs |-> IdleReq]
  /\ createdBy = [i \in {} |-> 0]
  /\ steps = [r \in Reqs |-> << >>]
  /\ pure \in {[pc |-> "call", findings |-> l, result |-> NoSummary] : l \in FindingLists}

\* One call of pdfGenerator.analyzeFindings(findings): it returns the counts
\* or throws.
AnalyzeCall ==
  /\ pure.pc = "call"
  /\ pure' = IF AnalyzeThrows(pure.findings)
             THEN [pure EXCEPT !.pc = "threw"]
             ELSE [pure EXCEPT !.pc = "returned", !.result = analyzeFindings(pure.findings)]
  /\ UNCHANGED <<rows, files, nextId, now, req, createdBy, steps>>

NextAnalyze == AnalyzeCall

SpecAnalyze == InitAnalyze /\ [][NextAnalyze]_vars

\* ------------------------------- the normalisation of findings on its own
\* The severity defaulted but left in the case it was sent in.
ReportSeverityAsSent(f) == SeverityOrDefault(f)
\* Lines 107-115, the severity of the finding handed to the renderer:
\* (f.severity || 'MEDIUM').toUpperCase().
ReportSeverity(f) == ToUpperCase(SeverityOrDefault(f))

\* findings.map(...): f.id of null, or .toUpperCase of a non-string, throws.
NormalizeThrows(findings) == \E i \in 1..Len(findings) : SeverityThrows(findings[i])
NormalizedFindings(findings) ==
  [i \in 1..Len(findings) |-> [index |-> i, severity |-> ReportSeverity(findings[i])]]

InitNormalize ==
  /\ rows = {}
  /\ files = [n \in {} |-> Bytes(0)]
  /\ nextId = 1
  /\ now = 0
  /\ req = [r \in Reqs |-> IdleReq]
  /\ createdBy = [i \in {} |-> 0]
  /\ steps = [r \in Reqs |-> << >>]
  /\ pure \in {[pc |-> "call", findings |-> l, result |-> << >>] : l \in FindingLists}

\* One evaluation of reportData.findings: the normalised list, or a TypeError.
NormalizeCall ==
  /\ pure.pc = "call"
  /\ pure' = IF NormalizeThrows(pure.findings)
             THEN [pure EXCEPT !.pc = "threw"]
             ELSE [pure EXCEPT !.pc = "returned", !.result = NormalizedFindings(pure.findings)]
  /\ UNCHANGED <<rows, files, nextId, now, req, createdBy, steps>>

NextNormalize == NormalizeCall

SpecNormalize == InitNormalize /\ [][NextNormalize]_vars

\* --------------------------------- the renderer's colours and bar widths
\* The switch without its default branch: the first case answers.
getSeverityColorWithoutDefault(severity) ==
  CASE severity = "CRITICAL" -> "#dc2626"
    [] severity = "HIGH" -> "#f97316"
    [] severity = "MEDIUM" -> "#eab308"
    [] severity = "LOW" -> "#22c55e"
    [] OTHER -> "#dc2626"
\* getSeverityColor: a switch on the severity with a default.
getSeverityColor(severity) ==
  CASE severity = "CRITICAL" -> "#dc2626"
    [] severity = "HIGH" -> "#f97316"
    [] severity = "MEDIUM" -> "#eab308"
    [] severity = "LOW" -> "#22c55e"
    [] OTHER -> "#000000"

\* The severities of the bar chart: label, count and colour.
severities(metadata) ==
  << [label |-> "Critical", count |-> metadata.criticalCount, color |-> "#dc2626"],
     [label |-> "High", count |-> metadata.highCount, color |-> "#f97316"],
     [label |-> "Medium", count |-> metadata.mediumCount, color |-> "#eab308"],
     [label |-> "Low", count |-> metadata.lowCount, color |-> "#22c55e"] >>

Max(a, b) == IF a >= b THEN a ELSE b

\* barWidth without its floor: 300 * (count / max(1, total)).
barWidthWithoutFloor(count, totalFindings) ==
  LET den == Max(1, totalFindings)
  IN  [num |-> 300 * count, den |-> den]
\* barWidth = Math.max(50, 300 * (count / Math.max(1, totalFindings))), kept
\* as the fraction num / den with den = max(1, totalFindings).
barWidth(count, totalFindings) ==
  LET den == Max(1, totalFindings)
  IN  [num |-> Max(50 * den, 300 * count), den |-> den]

\* What the renderer is given: the counts of the metadata, and the severity
\* of one finding.
Counts == 0..MaxCount
Metadatas ==
  [totalFindings : Counts, criticalCount : Counts, highCount : Counts,
   mediumCount : Counts, lowCount : Counts]
ColorInputs == SevInputs \cup {"INFO"}

InitChart ==
  /\ rows = {}
  /\ files = [n \in {} |-> Bytes(0)]
  /\ nextId = 1
  /\ now = 0
  /\ req = [r \in Reqs |-> IdleReq]
  /\ createdBy = [i \in {} |-> 0]
  /\ steps = [r \in Reqs |-> << >>]
  /\ pure \in {[pc |-> "call", metadata |-> m, severity |-> v, bars |-> << >>,
                color |-> NullStr] : m \in Metadatas, v \in ColorInputs}

\* severities.forEach: one bar per severity, of its colour and width.
DrawBars ==
  /\ pure.pc = "call"
  /\ pure' = [pure EXCEPT
                !.pc = "bars",
                !.bars = [k \in 1..4 |->
                            LET sev == severities(pure.metadata)[k]
                            IN  [label |-> sev.label, count |-> sev.count, fill |-> sev.color,
                                 width |-> barWidth(sev.count, pure.metadata.totalFindings)]]]
  /\ UNCHANGED <<rows, files, nextId, now, req, createdBy, steps>>

\* The header of a finding: this.getSeverityColor(finding.severity).
ColorFinding ==
  /\ pure.pc = "call"
  /\ pure' = [pure EXCEPT !.pc = "colored", !.color = getSeverityColor(pure.severity)]
  /\ UNCHANGED <<rows, files, nextId, now, req, createdBy, steps>>

NextChart == DrawBars \/ ColorFinding

SpecChart == InitChart /\ [][NextChart]_vars

\* ------------------------------------------------- the storage integration
\* process.env: a credential is not set, empty, blank, one of the three
\* placeholders of the sample configuration, or a value of the account.
Unset == "<unset>"
CredValues ==
  {Unset, "", "  ", "your_cloud_name_here", "your_api_key_here", "your_api_secret_here",
   "acme"}
Envs ==
  [cloudName : CredValues, apiKey : CredValues, apiSecret : CredValues,
   suppressWarning : {Unset, "1"}]

\* A value in a condition: undefined and "" are falsy.
Truthy(v) == v \notin {Unset, ""}
\* String.prototype.trim on the values of the model.
Trim(v) == IF v = "  " THEN "" ELSE v

\* isConfigured without the three trim() comparisons.
isConfiguredWithoutTrim(env) ==
  /\ Truthy(env.cloudName) /\ Truthy(env.apiKey) /\ Truthy(env.apiSecret)
  /\ env.cloudName # "your_cloud_name_here"
  /\ env.apiKey # "your_api_key_here"
  /\ env.apiSecret # "your_api_secret_here"
\* isConfigured(): the value it returns.
isConfigured(env) ==
  /\ Truthy(env.cloudName) /\ Truthy(env.apiKey) /\ Truthy(env.apiSecret)
  /\ env.cloudName # "your_cloud_name_here"
  /\ env.apiKey # "your_api_key_here"
  /\ env.apiSecret # "your_api_secret_here"
  /\ Trim(env.cloudName) # "" /\ Trim(env.apiKey) # "" /\ Trim(env.apiSecret) # ""

\* isConfigured(): whether it writes its warning.
Warns(env) == ~isConfigured(env) /\ ~Truthy(env.suppressWarning)

\* How a call ends (returned, threw, resolved, rejected), with what, and the
\* calls of the provider's SDK it made.
Outcome(kind, flag, message, calls, env) ==
  [kind |-> kind, flag |-> flag, message |-> message, calls |-> calls, warned |-> Warns(env)]

ProviderError == "provider error"

\* uploadBuffer: the outcomes of one call.
uploadBuffer(env) ==
  IF ~isConfigured(env)
  THEN {Outcome("rejected", FALSE,
                "Cloudinary is not configured. Check your environment variables.", << >>, env)}
  ELSE {Outcome("resolved", TRUE, NullStr, << "uploader.upload_stream" >>, env),
        Outcome("rejected", FALSE, "Cloudinary upload failed: " \o ProviderError,
                << "uploader.upload_stream" >>, env),
        Outcome("rejected", FALSE, "No result returned from Cloudinary",
                << "uploader.upload_stream" >>, env)}

\* deleteFile without its isConfigured() test.
deleteFileUnchecked(env) ==
  {Outcome("resolved", TRUE, NullStr, << "uploader.destroy" >>, env),
   Outcome("rejected", FALSE, "Failed to delete file: " \o ProviderError,
           << "uploader.destroy" >>, env)}
\* deleteFile: the outcomes of one call; what is thrown in the try is
\* rethrown by the catch as 'Failed to delete file: ...'.
deleteFile(env) ==
  IF ~isConfigured(env)
  THEN {Outcome("rejected", FALSE, "Failed to delete file: " \o "Cloudinary is not configured",
                << >>, env)}
  ELSE {Outcome("resolved", TRUE, NullStr, << "uploader.destroy" >>, env),
        Outcome("rejected", FALSE, "Failed to delete file: " \o ProviderError,
                << "uploader.destroy" >>, env)}

\* getFileUrl: synchronous; cloudinary.url builds the URL locally.
getFileUrl(env) ==
  IF ~isConfigured(env)
  THEN {Outcome("threw", FALSE, "Cloudinary is not configured", << >>, env)}
  ELSE {Outcome("returned", TRUE, NullStr, << "url" >>, env)}

\* verifyConnection: false when not configured or when the ping fails.
verifyConnection(env) ==
  IF ~isConfigured(env)
  THEN {Outcome("resolved", FALSE, NullStr, << >>, env)}
  ELSE {Outcome("resolved", TRUE, NullStr, << "api.ping" >>, env),
        Outcome("resolved", FALSE, NullStr, << "api.ping" >>, env)}

NoOutcome == [kind |-> "none", flag |-> FALSE, message |-> NullStr, calls |-> << >>,
              warned |-> FALSE]

InitStorage ==
  /\ rows = {}
  /\ files = [n \in {} |-> Bytes(0)]
  /\ nextId = 1
  /\ now = 0
  /\ req = [r \in Reqs |-> IdleReq]
  /\ createdBy = [i \in {} |-> 0]
  /\ steps = [r \in Reqs |-> << >>]
  /\ pure \in {[pc |-> "call", env |-> env, op |-> "none", outcome |-> NoOutcome] :
                 env \in Envs}

StorageCall(op, outcomes) ==
  /\ pure.pc = "call"
  /\ \E o \in outcomes : pure' = [pure EXCEPT !.pc = "done", !.op = op, !.outcome = o]
  /\ UNCHANGED <<rows, files, nextId, now, req, createdBy, steps>>

IsConfiguredCall ==
  StorageCall("isConfigured",
              {Outcome("returned", isConfigured(pure.env), NullStr, << >>, pure.env)})
UploadBufferCall == StorageCall("uploadBuffer", uploadBuffer(pure.env))
DeleteFileCall == StorageCall("deleteFile", deleteFile(pure.env))
GetFileUrlCall == StorageCall("getFileUrl", getFileUrl(pure.env))
VerifyConnectionCall == StorageCall("verifyConnection", verifyConnection(pure.env))

NextStorage ==
  \/ IsConfiguredCall
  \/ UploadBufferCall
  \/ DeleteFileCall
  \/ GetFileUrlCall
  \/ VerifyConnectionCall

SpecStorage == InitStorage /\ [][NextStorage]_vars

\* ------------------------------------------- getConfigStatus in two runs
\* getConfigStatus(): the snapshot it returns.
getConfigStatus(env) ==
  [configured |-> isConfigured(env),
   cloudName |-> IF Truthy(env.cloudName) THEN env.cloudName ELSE "NOT_SET",
   hasApiKey |-> Truthy(env.apiKey),
   hasApiSecret |-> Truthy(env.apiSecret)]

NoSnapshot == [configured |-> FALSE, cloudName |-> NullStr, hasApiKey |-> FALSE,
               hasApiSecret |-> FALSE]

\* Two processes, each with its own environment (the warning not suppressed).
EnvPairs ==
  {p \in [a : Envs, b : Envs] : p.a.suppressWarning = Unset /\ p.b.suppressWarning = Unset}

InitConfigStatus ==
  /\ rows = {}
  /\ files = [n \in {} |-> Bytes(0)]
  /\ nextId = 1
  /\ now = 0
  /\ req = [r \in Reqs |-> IdleReq]
  /\ createdBy = [i \in {} |-> 0]
  /\ steps = [r \in Reqs |-> << >>]
  /\ pure \in {[pc |-> "call", env |-> p, snapshot |-> [a |-> NoSnapshot, b |-> NoSnapshot]] :
                 p \in EnvPairs}

\* getConfigStatus() is called once in each process.
ConfigStatusCalls ==
  /\ pure.pc = "call"
  /\ pure' = [pure EXCEPT !.pc = "done",
                          !.snapshot = [a |-> getConfigStatus(pure.env.a),
                                        b |-> getConfigStatus(pure.env.b)]]
  /\ UNCHANGED <<rows, files, nextId, now, req, createdBy, steps>>

NextConfigStatus == ConfigStatusCalls

SpecConfigStatus == InitConfigStatus /\ [][NextConfigStatus]_vars

\* ------------------------------------------- generateReport step by step
\* The page: A4 is 841.89 points high, taken as 842; margin 50 all round;
\* text flows down to the bottom margin.
PageHeight == 842
Margin == 50
MaxY == PageHeight - Margin
FooterOffset == 30
\* Line heights of the footers (10 and 8 point) and of a finding's header.
FooterLine == 12
HeaderLine == 19
\* doc.y when the first finding is reached: below the title of the page.
FirstY == 96
\* The height the header lines, description and recommendation of one
\* finding take, separator included: three lengths of text.
BodyHeights == {80, 300, 640}

\* if (doc.y > 750): the page break tested too late.
NeedsBreakLate(y) == y > 750
\* if (doc.y > 650).
NeedsBreak(y) == y > 650

\* doc.addPage(): the page so far is flushed as a chunk and the cursor is
\* at the top margin of a new page.
AddPage(d) == [d EXCEPT !.page = @ + 1, !.y = Margin, !.queue = Append(@, d.page)]

\* doc.text(str, x, y): the cursor is set to y; a line that does not fit
\* above the bottom margin is continued on a new page; the cursor ends below
\* the line.
TextAt(d, y, line) ==
  LET at == IF y + line > MaxY THEN AddPage(d) ELSE [d EXCEPT !.y = y]
  IN  [at EXCEPT !.y = @ + line]

\* doc.text(str) and moveDown at the cursor: text of height h, continued on
\* a new page when it passes the bottom margin.
Flow(d, h) ==
  IF d.y + h > MaxY THEN [AddPage(d) EXCEPT !.y = Margin + (d.y + h - MaxY)]
  ELSE [d EXCEPT !.y = @ + h]

\* The whole document: every page in order, then the trailer (chunk 0).
WholeDocument(pages) == [k \in 1..(pages + 1) |-> IF k <= pages THEN k ELSE 0]

\* The renderer at the call of generateReport for a report of n findings:
\* cursor, page, chunks written and not yet read, chunks pushed to buffers,
\* the promise, and for each finding where its header was drawn.
RenderStart(n) ==
  [pc |-> "front", n |-> n, i |-> 1, y |-> Margin, page |-> 1, queue |-> << >>,
   buffers |-> << >>, promise |-> "pending", value |-> << >>,
   checked |-> [y |-> 0, page |-> 0, footer |-> FALSE], headers |-> << >>]

Drawing == {"front", "check", "draw", "finish"}

\* Lines 50-186: cover page, summary page (addPage at 112), and the title of
\* the findings page (addPage at 178).
RenderFront ==
  /\ pure.pc = "front"
  /\ pure' = [AddPage(AddPage(pure)) EXCEPT
                !.y = FirstY, !.pc = IF pure.n = 0 THEN "finish" ELSE "check"]

\* Lines 189-201: the page break before a finding, with its footer.
RenderCheck ==
  /\ pure.pc = "check"
  /\ LET seen == [y |-> pure.y, page |-> pure.page, footer |-> NeedsBreak(pure.y)]
         d == IF NeedsBreak(pure.y)
              THEN TextAt(AddPage(pure), PageHeight - FooterOffset, FooterLine)
              ELSE pure
     IN  pure' = [d EXCEPT !.pc = "draw", !.checked = seen]

\* Lines 203-246: the header of the finding at the cursor, then its text.
RenderFinding ==
  /\ pure.pc = "draw"
  /\ \E h \in BodyHeights :
       LET header == [y |-> pure.y, page |-> pure.page, checked |-> pure.checked]
           d == Flow(Flow(pure, HeaderLine), h)
       IN  pure' = [d EXCEPT !.headers = Append(@, header),
                             !.i = @ + 1,
                             !.pc = IF pure.i = pure.n THEN "finish" ELSE "check"]

\* doc.end() resolving the promise at once, with the chunks read so far.
RenderFinishResolvesAtOnce ==
  /\ pure.pc = "finish"
  /\ LET d == TextAt(pure, PageHeight - FooterOffset, FooterLine)
     IN  pure' = [d EXCEPT !.pc = "ended", !.queue = @ \o << d.page, 0 >>,
                           !.promise = "resolved", !.value = pure.buffers]
\* Lines 249-260: the final footer and doc.end(): the last page and the
\* trailer are written.
RenderFinish ==
  /\ pure.pc = "finish"
  /\ LET d == TextAt(pure, PageHeight - FooterOffset, FooterLine)
     IN  pure' = [d EXCEPT !.pc = "ended", !.queue = @ \o << d.page, 0 >>]

\* Lines 261-264: an exception while drawing is caught and rejects.
RenderThrow ==
  /\ pure.pc \in Drawing
  /\ pure' = [pure EXCEPT !.pc = "threw",
                          !.promise = IF @ = "pending" THEN "rejected" ELSE @]

\* Line 44: doc.on('data'): the next chunk is pushed to buffers.
DataEvent ==
  /\ pure.pc \in Drawing \cup {"ended"}
  /\ pure.queue # << >>
  /\ pure' = [pure EXCEPT !.queue = Tail(@), !.buffers = Append(@, Head(pure.queue))]

\* Line 49: doc.on('error', reject).
ErrorEvent ==
  /\ pure.pc \in Drawing \cup {"ended"}
  /\ pure' = [pure EXCEPT !.pc = "errored",
                          !.promise = IF @ = "pending" THEN "rejected" ELSE @]

\* Lines 45-48: doc.on('end'), emitted once every chunk has been read:
\* resolve(Buffer.concat(buffers)).
EndEvent ==
  /\ pure.pc = "ended" /\ pure.queue = << >>
  /\ pure' = [pure EXCEPT !.pc = "closed",
                          !.promise = IF @ = "pending" THEN "resolved" ELSE @,
                          !.value = IF pure.promise = "pending" THEN pure.buffers ELSE @]

\* A generate request for e1 has inserted row 1 and calls generateReport.
InitRender ==
  \E n \in 0..MaxFindings :
    LET l == [k \in 1..n |-> Finding("HIGH")]
    IN  /\ rows = {[id |-> 1, executionId |-> <<"e", 1>>, summary |-> analyzeFindings(l),
                    status |-> "PROCESSING", pdfUrl |-> NullName, pdfPath |-> NullName,
                    fileSize |-> NullStr]}
        /\ files = [f \in {} |-> Bytes(0)]
        /\ nextId = 2
        /\ now = 0
        /\ req = [r \in Reqs |->
                    IF r = 1
                    THEN [IdleReq EXCEPT !.kind = "generate", !.pc = "render",
                                         !.executionId = <<"e", 1>>,
                                         !.findings = ListFindings(l),
                                         !.analysis = analyzeFindings(l), !.report = 1]
                    ELSE IdleReq]
        /\ createdBy = (1 :> 1)
        /\ steps = [r \in Reqs |-> IF r = 1 THEN << "check:none", "insert" >> ELSE << >>]
        /\ pure = RenderStart(n)

RouteUnchanged == UNCHANGED <<rows, files, nextId, now, req, createdBy, steps>>

NextRender ==
  \/ RenderFront /\ RouteUnchanged
  \/ RenderCheck /\ RouteUnchanged
  \/ RenderFinding /\ RouteUnchanged
  \/ RenderFinish /\ RouteUnchanged
  \/ RenderThrow /\ RouteUnchanged
  \/ DataEvent /\ RouteUnchanged
  \/ ErrorEvent /\ RouteUnchanged
  \/ EndEvent /\ RouteUnchanged
  \/ GenerateRender(1)
  \/ GenerateUpdate(1)
  \/ GenerateCatch(1)

SpecRender == InitRender /\ [][NextRender]_vars

\* -------------------------------------- the summary and the report data
\* Lines 82-124: the counts of analyzeFindings go into the row's summary and
\* into reportData.metadata; the findings are normalised for the renderer.
reportData(findings) ==
  LET analysis == analyzeFindings(findings)
  IN  [findings |-> NormalizedFindings(findings),
       metadata |-> [totalFindings |-> analysis.totalFindings,
                     criticalCount |-> analysis.criticalCount,
                     highCount |-> analysis.highCount,
                     mediumCount |-> analysis.mediumCount,
                     lowCount |-> analysis.lowCount],
       summary |-> analysis]

NoReportData == [findings |-> << >>, metadata |-> NoSummary, summary |-> NoSummary]

InitReportData ==
  /\ rows = {}
  /\ files = [n \in {} |-> Bytes(0)]
  /\ nextId = 1
  /\ now = 0
  /\ req = [r \in Reqs |-> IdleReq]
  /\ createdBy = [i \in {} |-> 0]
  /\ steps = [r \in Reqs |-> << >>]
  /\ pure \in {[pc |-> "call", findings |-> l, result |-> NoReportData] : l \in FindingLists}

\* The two normalisations of one generate request, or its TypeError.
ReportDataCall ==
  /\ pure.pc = "call"
  /\ pure' = IF AnalyzeThrows(pure.findings) \/ NormalizeThrows(pure.findings)
             THEN [pure EXCEPT !.pc = "threw"]
             ELSE [pure EXCEPT !.pc = "returned", !.result = reportData(pure.findings)]
  /\ UNCHANGED <<rows, files, nextId, now, req, createdBy, steps>>

NextReportData == ReportDataCall

SpecReportData == InitReportData /\ [][NextReportData]_vars

\* ================================================================ claims
Generates == {r \in Reqs : req[r].kind = "generate"}
ValidBody(r) == req[r].executionId \in ExecIds /\ req[r].findings.shape = "array"
Inserted(r) == \E i \in DOMAIN createdBy : createdBy[i] = r
WroteFile(r) == \E n \in DOMAIN files : files[n] = Bytes(r)
Has(s, entry) == \E i \in 1..Len(s) : s[i] = entry
Before(s, a, b) == \A i \in 1..Len(s) : s[i] = b => \E j \in 1..(i - 1) : s[j] = a
Once(s, entry) == Cardinality({i \in 1..Len(s) : s[i] = entry}) <= 1

\* C1: in every reachable state the store holds at most one row per
\* executionId, whatever generate, delete and diagnostic requests interleave.
C1_OneRowPerExecutionId ==
  \A v \in rows, w \in rows : v.executionId = w.executionId => v = w

\* C1 witness: an insert was refused by the unique index while the row of
\* the same executionId is in the store.
C1_Witness ==
  \E r \in Reqs :
    /\ req[r].error = "Unique constraint failed"
    /\ \E w \in rows : w.executionId = req[r].executionId /\ createdBy[w.id] # r

\* C2 (as claimed): the reports directory never holds two PDF files written
\* for the same executionId.
C2_OnePdfPerExecutionId ==
  \A m \in DOMAIN files, n \in DOMAIN files : m.exec = n.exec => m = n

\* C3 (as claimed): a generate call that does not insert the row, and fails
\* for no reason other than the row of another call, answers with success and
\* the reportId and status of a row inserted by another call.
C3_DuplicateGenerateSucceeds ==
  \A r \in Generates :
    (/\ req[r].pc = "done" /\ ValidBody(r) /\ ~Inserted(r)
     /\ req[r].error \in {NullStr, "Unique constraint failed"})
    => /\ req[r].resp.code = 200 /\ req[r].resp.success
       /\ \E i \in DOMAIN createdBy : createdBy[i] # r /\ req[r].resp.reportId = i
       /\ req[r].resp.status \in {"PROCESSING", "COMPLETED", "FAILED"}

\* C4 (as claimed): a generate call whose executionId has a row in the store
\* when its existence check runs changes no row and no file and renders
\* nothing, in any of its steps.
C4_ExistingRowUntouched ==
  [][\A r \in Reqs :
       (/\ req'[r].kind = "generate" /\ req'[r] # req[r]
        /\ Has(steps'[r], "check:exists"))
       => /\ rows' = rows /\ files' = files
          /\ ~Has(steps'[r], "render")]_vars

\* C5 (as claimed): a row changes only from PROCESSING to COMPLETED or to
\* FAILED; a COMPLETED or FAILED row is never changed again.
C5_StatusChangesOnce ==
  [][\A v \in rows, w \in rows' :
       (v.id = w.id /\ v # w)
       => v.status = "PROCESSING" /\ w.status \in {"COMPLETED", "FAILED"}]_vars

\* C6 (as claimed): only COMPLETED rows carry pdfUrl, pdfPath or fileSize;
\* PROCESSING and FAILED rows have all three null.
C6_PdfFieldsOnlyWhenCompleted ==
  \A w \in rows :
    (w.pdfUrl # NullName \/ w.pdfPath # NullName \/ w.fileSize # NullStr)
    => w.status = "COMPLETED"

\* C7: within one generate request the steps come in the order insert,
\* render, write, update, each at most once and none before the one it
\* follows; a file of the request exists only after its insert, and the
\* success response comes only after the whole sequence.
C7_GenerateStepOrder ==
  \A r \in Generates :
    LET s == steps[r]
    IN  /\ Before(s, "insert", "render")
        /\ Before(s, "render", "write")
        /\ Before(s, "write", "update")
        /\ \A e \in {"insert", "render", "write", "update", "respond"} : Once(s, e)
        /\ WroteFile(r) => (Inserted(r) /\ Has(s, "write"))
        /\ req[r].resp.message = "Report generated successfully"
           => s = << "check:none", "insert", "render", "write", "update", "respond" >>

\* C7 witness: a generate request has been answered with success after its
\* row was set COMPLETED and its file written.
C7_Witness ==
  \E r \in Generates :
    /\ req[r].pc = "done" /\ req[r].resp.message = "Report generated successfully"
    /\ WroteFile(r)
    /\ \E w \in rows : w.id = req[r].report /\ w.status = "COMPLETED"

\* C8: a generate request without executionId, or whose findings are absent
\* or not a list, is answered 400 at once; it inserts no row and writes no file.
C8_InvalidBodyRejected ==
  \A r \in Generates :
    ~ValidBody(r)
    => /\ req[r].pc = "done" /\ req[r].resp.code = 400 /\ ~req[r].resp.success
       /\ ~Inserted(r) /\ ~WroteFile(r)
       /\ steps[r] = << "respond" >>

\* C8 witness: a request with an executionId whose findings are not a list
\* has been answered 400, and one without executionId too.
C8_Witness ==
  /\ \E r \in Generates :
       /\ req[r].executionId \in ExecIds /\ req[r].findings = NotArrayFindings
       /\ req[r].resp.code = 400
  /\ \E r \in Generates :
       /\ req[r].executionId = AbsentExec /\ req[r].findings.shape = "array"
       /\ req[r].resp.code = 400

\* C9 (as claimed): the four counts analyzeFindings returns add up to
\* totalFindings, the length of the list, a missing or unrecognised severity
\* being counted as medium.
C9_CountsAddUp ==
  pure.pc = "returned"
  => LET a == pure.result
         l == pure.findings
     IN  /\ a.totalFindings = Len(l)
         /\ a.criticalCount + a.highCount + a.mediumCount + a.lowCount = a.totalFindings
         /\ a.mediumCount =
              Cardinality({i \in 1..Len(l) :
                 ToUpperCase(l[i].severity) \notin {"CRITICAL", "HIGH", "LOW"}})

\* C10: the step that handles a failed generate request tries to set the rows
\* of its executionId to FAILED with the error as summary, and answers 500
\* with the message of the first error whether or not that update went
\* through; a failed update changes nothing and is not reported.
C10_FailureMarkedAndAnswered ==
  [][\A r \in Reqs :
       /\ (req'[r].kind = "generate" /\ req'[r].error # NullStr /\ req[r].error = NullStr)
          => req'[r].pc = "catch"
       /\ (req[r].kind = "generate" /\ req[r].pc = "catch" /\ req'[r] # req[r])
          => /\ req'[r].pc = "done"
             /\ req'[r].resp.code = 500 /\ ~req'[r].resp.success
             /\ req'[r].resp.error = "Failed to generate report"
             /\ req'[r].resp.message = req[r].error
             /\ \/ /\ Has(steps'[r], "updateMany")
                   /\ \A w \in rows' : w.executionId = req[r].executionId
                        => w.status = "FAILED" /\ w.summary = ErrorSummary(req[r].error)
                   /\ {w.id : w \in rows'} = {w.id : w \in rows}
                   /\ {w \in rows' : w.executionId # req[r].executionId}
                        = {w \in rows : w.executionId # req[r].executionId}
                \/ /\ Has(steps'[r], "updateMany failed")
                   /\ rows' = rows]_vars

\* C10 witness: a failed generate request was answered 500 although the
\* update to FAILED failed too, its row still PROCESSING.
C10_Witness ==
  \E r \in Generates :
    /\ req[r].pc = "done" /\ req[r].resp.code = 500
    /\ Has(steps[r], "updateMany failed")
    /\ \E w \in rows : w.id = req[r].report /\ w.status = "PROCESSING"

\* C11 (as claimed): once a delete request has been answered with success,
\* the row of its id is not in the store and no file produced for that report
\* is in the reports directory, whatever ran concurrently.
C11_DeleteRemovesRowAndFile ==
  \A r \in Reqs :
    (req[r].kind = "delete" /\ req[r].pc = "done" /\ req[r].resp.code = 200)
    => /\ \A w \in rows : w.id # req[r].id
       /\ \A n \in DOMAIN files : files[n] # Bytes(createdBy[req[r].id])

\* The file names some generate request has written so far.
EverWritten == {req[q].pdfPath : q \in {g \in Generates : Has(steps[g], "write")}}

\* C12 (as claimed): download and view of a name never written answer 404;
\* download and view of the name a successful generate response gave, no
\* delete request having run since, answer with content type application/pdf
\* and the bytes rendered for that generate request.
C12_ServesWhatWasGenerated ==
  \A d \in Reqs :
    (req[d].kind \in {"download", "view"} /\ req[d].pc = "done")
    => /\ req[d].pdfPath \notin EverWritten => req[d].resp.code = 404
       /\ \A g \in req[d].givenBy :
            (\A q \in Reqs : req[q].kind # "delete")
            => /\ req[d].resp.code = 200
               /\ req[d].resp.contentType = "application/pdf"
               /\ req[d].resp.body = Bytes(g)

\* C13 (as claimed): against a store of fewer than 20 rows, none included,
\* GET / with page 1, limit 20 and no status returns every row and
\* pagination.pages = 1.
C13_SmallStoreIsOnePage ==
  (/\ pure.pc = "returned" /\ Cardinality(rows) < 20
   /\ pure.query.page = 1 /\ pure.query.limit = 20 /\ pure.query.status = NoStatus)
  => /\ {pure.result.data[k] : k \in 1..Len(pure.result.data)} = {w.id : w \in rows}
     /\ Len(pure.result.data) = Cardinality(rows)
     /\ pure.result.pages = 1

\* C13 (amended): against a store of 1 to 19 rows, GET / with page 1, limit
\* 20 and no status returns every row, once, and pagination.pages = 1;
\* against an empty store it returns no row and pagination.pages = 0.
C13_SmallStorePages ==
  (/\ pure.pc = "returned" /\ Cardinality(rows) < 20
   /\ pure.query.page = 1 /\ pure.query.limit = 20 /\ pure.query.status = NoStatus)
  => /\ {pure.result.data[k] : k \in 1..Len(pure.result.data)} = {w.id : w \in rows}
     /\ Len(pure.result.data) = Cardinality(rows)
     /\ pure.result.total = Cardinality(rows)
     /\ pure.result.pages = (IF rows = {} THEN 0 ELSE 1)

\* C13 witness: a store of 19 rows has been listed on one page.
C13_Witness ==
  /\ pure.pc = "returned" /\ Cardinality(rows) = 19
  /\ pure.query.page = 1 /\ pure.query.limit = 20 /\ pure.query.status = NoStatus
  /\ Len(pure.result.data) = 19 /\ pure.result.pages = 1

\* C14 (as claimed): a generate request that creates a report and succeeds
\* is answered with status 201.
C14_CreatedAnswers201 ==
  \A r \in Generates :
    (req[r].pc = "done" /\ req[r].resp.message = "Report generated successfully")
    => req[r].resp.code = 201

\* C15 (as claimed): every JSON response of a report route carries the
\* fields success and timestamp, and every error response error and message
\* as well.
C15_UniformEnvelope ==
  \A r \in Reqs :
    (req[r].pc = "done" /\ req[r].resp.contentType = NullStr)
    => /\ {"success", "timestamp"} \subseteq req[r].resp.fields
       /\ req[r].resp.code >= 400 => {"error", "message"} \subseteq req[r].resp.fields

\* C16 (as claimed): every normalised finding has a severity among LOW,
\* MEDIUM, HIGH and CRITICAL: the submitted one in upper case when that is
\* one of the four, MEDIUM when it is absent or not recognised.
C16_SeverityNormalised ==
  pure.pc = "returned"
  => \A i \in 1..Len(pure.findings) :
       LET given == pure.findings[i].severity
           out == pure.result[i].severity
       IN  /\ out \in {"LOW", "MEDIUM", "HIGH", "CRITICAL"}
           /\ out = (IF given \in {"CRITICAL", "critical"} THEN "CRITICAL"
                     ELSE IF given \in {"HIGH", "High"} THEN "HIGH"
                     ELSE IF given \in {"LOW", "low"} THEN "LOW"
                     ELSE "MEDIUM")

\* C17: getSeverityColor answers for every input: #dc2626 for CRITICAL,
\* #f97316 for HIGH, #eab308 for MEDIUM, #22c55e for LOW and #000000 for
\* anything else; the bars of the chart are filled with the same four colours.
C17_SeverityColors ==
  /\ pure.pc = "colored"
     => pure.color = (IF pure.severity = "CRITICAL" THEN "#dc2626"
                      ELSE IF pure.severity = "HIGH" THEN "#f97316"
                      ELSE IF pure.severity = "MEDIUM" THEN "#eab308"
                      ELSE IF pure.severity = "LOW" THEN "#22c55e"
                      ELSE "#000000")
  /\ pure.pc = "bars"
     => LET claimed == [l \in {"Critical", "High", "Medium", "Low"} |->
                          CASE l = "Critical" -> "#dc2626" [] l = "High" -> "#f97316"
                            [] l = "Medium" -> "#eab308" [] OTHER -> "#22c55e"]
        IN  /\ {pure.bars[k].label : k \in 1..Len(pure.bars)} = DOMAIN claimed
            /\ \A k \in 1..Len(pure.bars) : pure.bars[k].fill = claimed[pure.bars[k].label]

\* C17 witness: a severity that is none of the four (lower-case critical)
\* has been given black.
C17_Witness ==
  pure.pc = "colored" /\ pure.severity = "critical" /\ pure.color = "#000000"

\* C18: every bar is at least 50 wide, whatever the count and the total,
\* zero included (width num / den >= 50).
C18_BarAtLeast50 ==
  pure.pc = "bars"
  => \A k \in 1..Len(pure.bars) :
       /\ pure.bars[k].width.den > 0
       /\ pure.bars[k].width.num >= 50 * pure.bars[k].width.den

\* C18 witness: with totalFindings 0 the bar of a count of 0 is exactly 50
\* wide and the bar of a positive count is wider.
C18_Witness ==
  /\ pure.pc = "bars" /\ pure.metadata.totalFindings = 0
  /\ pure.bars[1].count = 0 /\ pure.bars[1].width.num = 50 * pure.bars[1].width.den
  /\ pure.bars[2].count = MaxCount /\ pure.bars[2].width.num > 50 * pure.bars[2].width.den

\* A credential that is set, not blank and not the placeholder given.
Supplied(v, placeholder) == v \notin {Unset, "", "  ", placeholder}

\* C19: isConfigured() returns true exactly when cloud name, API key and API
\* secret are each set, not blank and not their placeholder; nothing else of
\* the environment changes what it returns.
C19_ConfiguredIffCredentials ==
  (pure.pc = "done" /\ pure.op = "isConfigured")
  => /\ pure.outcome.kind = "returned"
     /\ pure.outcome.flag
          = (/\ Supplied(pure.env.cloudName, "your_cloud_name_here")
             /\ Supplied(pure.env.apiKey, "your_api_key_here")
             /\ Supplied(pure.env.apiSecret, "your_api_secret_here"))

\* C19 witness: isConfigured() has returned false because one credential is
\* blank, the other two being real.
C19_Witness ==
  /\ pure.pc = "done" /\ pure.op = "isConfigured" /\ ~pure.outcome.flag
  /\ pure.env.cloudName = "acme" /\ pure.env.apiKey = "acme" /\ pure.env.apiSecret = "  "

\* C20: with storage not configured, uploadBuffer and deleteFile reject and
\* getFileUrl throws, each with a message saying that Cloudinary is not
\* configured, and verifyConnection resolves to false; none of them calls the
\* provider, and none ends otherwise.
C20_UnconfiguredFailsCleanly ==
  (pure.pc = "done" /\ ~isConfigured(pure.env))
  => /\ pure.outcome.calls = << >>
     /\ pure.op \in {"uploadBuffer", "deleteFile"}
          => pure.outcome.kind = "rejected"
     /\ pure.op = "getFileUrl" => pure.outcome.kind = "threw"
     /\ pure.op \in {"uploadBuffer", "deleteFile", "getFileUrl"}
          => pure.outcome.message \in
               {"Cloudinary is not configured. Check your environment variables.",
                "Failed to delete file: Cloudinary is not configured",
                "Cloudinary is not configured"}
     /\ pure.op = "verifyConnection"
          => pure.outcome.kind = "resolved" /\ ~pure.outcome.flag

\* C20 witness: deleteFile has rejected without a call of the provider, the
\* API secret being the placeholder.
C20_Witness ==
  /\ pure.pc = "done" /\ pure.op = "deleteFile" /\ pure.outcome.kind = "rejected"
  /\ pure.outcome.calls = << >>
  /\ pure.env.cloudName = "acme" /\ pure.env.apiKey = "acme"
  /\ pure.env.apiSecret = "your_api_secret_here"

\* Two environments alike in which credentials are present and in whether
\* storage is configured.
SamePresence(a, b) ==
  /\ Truthy(a.cloudName) = Truthy(b.cloudName)
  /\ Truthy(a.apiKey) = Truthy(b.apiKey)
  /\ Truthy(a.apiSecret) = Truthy(b.apiSecret)
  /\ isConfigured(a) = isConfigured(b)

\* C21 (as claimed): two environments that differ only in the values of the
\* credentials, not in their presence or in being configured, get the same
\* snapshot from getConfigStatus().
C21_SnapshotHidesValues ==
  (pure.pc = "done" /\ SamePresence(pure.env.a, pure.env.b))
  => pure.snapshot.a = pure.snapshot.b

\* C22: when rendering fails during a generate request, the request writes
\* no file, does not set its row COMPLETED and is answered 500; the promise
\* of the renderer is resolved only after the document has ended, with every
\* chunk of the document, and otherwise delivers nothing.
C22_RenderFailureStopsRequest ==
  /\ pure.promise = "resolved"
     => pure.pc = "closed" /\ pure.value = WholeDocument(pure.page)
  /\ pure.promise # "resolved" => pure.value = << >>
  /\ pure.promise = "pending" => req[1].pc = "render"
  /\ Has(steps[1], "render") => pure.promise = "resolved"
  /\ pure.promise = "rejected"
     => /\ ~WroteFile(1) /\ ~Has(steps[1], "write") /\ ~Has(steps[1], "update")
        /\ \A w \in rows : w.id = req[1].report => w.status # "COMPLETED"
        /\ req[1].pc \in {"render", "catch", "done"}
        /\ req[1].pc = "done"
           => /\ req[1].resp.code = 500 /\ ~req[1].resp.success
              /\ req[1].resp.message = "render failed"

\* C22 witness: the renderer failed after chunks of the document had been
\* read; the request was answered 500 and its row is FAILED.
C22_Witness ==
  /\ pure.promise = "rejected" /\ pure.buffers # << >>
  /\ req[1].pc = "done" /\ req[1].resp.code = 500
  /\ \E w \in rows : w.id = req[1].report /\ w.status = "FAILED"

\* C25: before each finding, a cursor beyond 650 starts a new page and
\* stamps the footer; every header of a finding is drawn with the cursor at
\* 650 or above it on its page.
C25_HeadersAbove650 ==
  \A k \in 1..Len(pure.headers) :
    LET h == pure.headers[k]
    IN  /\ h.y <= 650
        /\ h.checked.y > 650 => (h.checked.footer /\ h.page > h.checked.page)
        /\ h.checked.y <= 650
           => (~h.checked.footer /\ h.page = h.checked.page /\ h.y = h.checked.y)

\* C25 witness: a finding reached with the cursor beyond 650 has its header
\* at the top of a later page, after the footer.
C25_Witness ==
  \E k \in 1..Len(pure.headers) :
    LET h == pure.headers[k]
    IN  h.checked.y > 650 /\ h.checked.footer /\ h.page > h.checked.page /\ h.y <= 650

\* C23 (as claimed): once its generate request has been answered, a row
\* inserted by it does not stay PROCESSING for ever: when every request has
\* been answered, no row inserted by a generate request is PROCESSING.
C23_NoRowLeftProcessing ==
  (\A q \in Reqs : req[q].pc = "done")
  => \A w \in rows : createdBy[w.id] \in Generates => w.status # "PROCESSING"

\* C24 (as claimed): every request ends with one response of its own
\* handler, whatever runs beside it; no failure leaves the handler uncaught.
C24_EveryRequestAnswered ==
  \A r \in Reqs :
    /\ req[r].pc # "uncaught"
    /\ Once(steps[r], "respond")
    /\ req[r].pc = "done" <=> Has(steps[r], "respond")

\* C26 (as claimed): the update to FAILED of a failing generate request
\* changes only rows that this request inserted.
C26_FailedUpdateOnlyOwnRow ==
  [][\A r \in Reqs :
       (req[r].kind = "generate" /\ req[r].pc = "catch" /\ req'[r] # req[r])
       => \A v \in rows, w \in rows' :
            (v.id = w.id /\ v # w) => createdBy[v.id] = r]_vars

\* C27 (as claimed): in every reachable state a COMPLETED row with a pdfPath
\* names a file that is in the reports directory.
C27_CompletedRowHasFile ==
  \A w \in rows :
    (w.status = "COMPLETED" /\ w.pdfPath # NullName) => w.pdfPath \in DOMAIN files

\* C28: for an accepted findings list and each of CRITICAL, HIGH, MEDIUM and
\* LOW, the count in the summary is the number of normalised findings of that
\* severity given to the renderer.
C28_CountsMatchNormalised ==
  pure.pc = "returned"
  => LET given == pure.result.findings
         number(sev) == Cardinality({i \in 1..Len(given) : given[i].severity = sev})
     IN  /\ Len(given) = Len(pure.findings)
         /\ pure.result.summary.criticalCount = number("CRITICAL")
         /\ pure.result.summary.highCount = number("HIGH")
         /\ pure.result.summary.mediumCount = number("MEDIUM")
         /\ pure.result.summary.lowCount = number("LOW")
         /\ pure.result.metadata.criticalCount = number("CRITICAL")
         /\ pure.result.metadata.highCount = number("HIGH")
         /\ pure.result.metadata.mediumCount = number("MEDIUM")
         /\ pure.result.metadata.lowCount = number("LOW")

\* C28 witness: a list with a lower-case, a missing and an unrecognised
\* severity has been counted and normalised.
C28_Witness ==
  /\ pure.pc = "returned"
  /\ pure.findings = << Finding("critical"), Finding(AbsentSev), Finding("info") >>
  /\ pure.result.summary.criticalCount = 1 /\ pure.result.summary.mediumCount = 1
  /\ pure.result.findings[3].severity = "INFO"

\* The kinds of request the read routes serve.
ReadKinds == {"health", "get", "getByExecution", "list", "download", "view", "listFiles"}

\* C29: a step of a health, get by id, get by executionId, list, download,
\* view or list-files request leaves every row and every local file as it
\* was, whatever the request is answered with.
C29_ReadsChangeNothing ==
  [][\A r \in Reqs :
       (req'[r] # req[r] /\ req'[r].kind \in ReadKinds) => (rows' = rows /\ files' = files)]_vars

\* C29 witness: with a row stored and its file on disk, a get by id has been
\* answered 200 and a download has streamed the file.
C29_Witness ==
  /\ rows # {} /\ DOMAIN files # {}
  /\ \E q \in Reqs : req[q].kind = "get" /\ req[q].pc = "done" /\ req[q].resp.code = 200
  /\ \E q \in Reqs : req[q].kind = "download" /\ req[q].pc = "done" /\ req[q].resp.code = 200

====
